---- MODULE Spec2Model ----
(***************************************************************************)
(* Model of mcp/lichess-mcp/server.py: the OpenAPI query tools             *)
(* (get_operation, list_operations), the snapshot differ                   *)
(* (diff_openapi_versions), the path normalizer (_normalize_path) and the  *)
(* endpoint reconciler (get_coverage_gaps).                                *)
(*                                                                         *)
(* Strings the code takes apart (paths, operation keys) are sequences of   *)
(* one-character strings; an HTTP method name is one atomic element of     *)
(* such a sequence (it never holds a space or a brace).  Python dicts are  *)
(* sequences of [k, v] pairs in insertion order.                           *)
(*                                                                         *)
(* The members of an operation that the tools only copy into their answer  *)
(* (summary, description, parameters, requestBody, responses) are left     *)
(* out; tags and deprecated, which the tools test, are kept.               *)
(***************************************************************************)
EXTENDS Integers, Sequences, FiniteSets, TLC

VARIABLES openapi, registry, snapshots, call, result

vars == <<openapi, registry, snapshots, call, result>>

(* ------------------------------ bounds -------------------------------- *)

\* longest path string handed to _normalize_path in SpecNorm
MaxLen == 6
\* most path entries of an OpenAPI document
MaxPaths == 2
\* most records matched in ImplementedEndpoints.cs
MaxRegistry == 3

(* ----------------------------- constants ------------------------------ *)

\* a file that does not exist, and a file holding `content`
NoFile == [exists |-> FALSE, content |-> <<>>]

File(content) == [exists |-> TRUE, content |-> content]

\* an exception leaving the tool
Raised(e) == [raised |-> e]

\* the replacement text of re.sub in _normalize_path
ParamToken == <<"{", "p", "a", "r", "a", "m", "}">>

\* the methods list_operations and get_coverage_gaps look for, in code order
RecognizedMethods == <<"get", "post", "put", "delete", "patch", "head", "options">>

\* str.upper() on the member names the model's documents use
Upper(s) ==
  CASE s = "get" -> "GET"
    [] s = "post" -> "POST"
    [] s = "put" -> "PUT"
    [] s = "delete" -> "DELETE"
    [] s = "patch" -> "PATCH"
    [] s = "head" -> "HEAD"
    [] s = "options" -> "OPTIONS"
    [] s = "trace" -> "TRACE"
    [] s = "parameters" -> "PARAMETERS"
    [] OTHER -> s

\* str.lower() on the method strings the model's callers pass
Lower(s) ==
  CASE s = "GET" -> "get"
    [] s = "POST" -> "post"
    [] s = "PUT" -> "put"
    [] s = "DELETE" -> "delete"
    [] s = "PATCH" -> "patch"
    [] s = "HEAD" -> "head"
    [] s = "OPTIONS" -> "options"
    [] s = "TRACE" -> "trace"
    [] s = "PARAMETERS" -> "parameters"
    [] OTHER -> s

\* code point order of the characters used, with the method names ranked
\* among themselves as Python orders them (no name is a prefix of another)
Rank(c) ==
  CASE c = " " -> 32
    [] c = "/" -> 47
    [] c = "DELETE" -> 60
    [] c = "GET" -> 61
    [] c = "HEAD" -> 62
    [] c = "OPTIONS" -> 63
    [] c = "PARAMETERS" -> 64
    [] c = "PATCH" -> 65
    [] c = "POST" -> 66
    [] c = "PUT" -> 67
    [] c = "TRACE" -> 68
    [] c = "a" -> 97
    [] c = "b" -> 98
    [] c = "m" -> 109
    [] c = "p" -> 112
    [] c = "r" -> 114
    [] c = "x" -> 120
    [] c = "y" -> 121
    [] c = "z" -> 122
    [] c = "{" -> 123
    [] c = "}" -> 125

\* Python's str < str
RECURSIVE StrLess(_, _)
StrLess(a, b) ==
  IF b = <<>> THEN FALSE
  ELSE IF a = <<>> THEN TRUE
  ELSE IF Head(a) = Head(b) THEN StrLess(Tail(a), Tail(b))
  ELSE Rank(Head(a)) < Rank(Head(b))

(* ------------------------- ordered dictionaries ----------------------- *)

RECURSIVE DictHas(_, _)
DictHas(d, k) ==
  IF d = <<>> THEN FALSE
  ELSE IF Head(d).k = k THEN TRUE
  ELSE DictHas(Tail(d), k)

RECURSIVE DictGet(_, _)
DictGet(d, k) ==
  IF Head(d).k = k THEN Head(d).v ELSE DictGet(Tail(d), k)

\* d[k] = v: a new key goes last, an existing key keeps its position
DictPut(d, k, v) ==
  IF DictHas(d, k)
  THEN [i \in 1..Len(d) |-> IF d[i].k = k THEN [k |-> k, v |-> v] ELSE d[i]]
  ELSE Append(d, [k |-> k, v |-> v])

Range(s) == {s[i] : i \in 1..Len(s)}

(* ------------------------------ _op_key ------------------------------- *)

\* f"{method.upper()} {path}"
_op_key(method, path) == <<Upper(method), " ">> \o path

(* --------------------------- _normalize_path -------------------------- *)

\* index of the first "}" of p at or after i, or 0
RECURSIVE FirstClose(_, _)
FirstClose(p, i) ==
  IF i > Len(p) THEN 0
  ELSE IF p[i] = "}" THEN i
  ELSE FirstClose(p, i + 1)

\* re.sub(r'\{[^}]+\}', '{param}', path) from position i on: the leftmost
\* match at a "{" runs to the first "}" after it and needs a character
\* between the two
RECURSIVE SubFrom(_, _)
SubFrom(p, i) ==
  IF i > Len(p) THEN <<>>
  ELSE IF p[i] = "{" /\ FirstClose(p, i + 1) > i + 1
       THEN ParamToken \o SubFrom(p, FirstClose(p, i + 1) + 1)
       ELSE <<p[i]>> \o SubFrom(p, i + 1)

\* index of the last "}" of p, or 0
LastClose(p) ==
  IF \E i \in 1..Len(p) : p[i] = "}"
  THEN CHOOSE i \in 1..Len(p) : p[i] = "}" /\ \A j \in (i + 1)..Len(p) : p[j] # "}"
  ELSE 0

\* a slip: the greedy pattern \{.+\}, which runs to the last "}"
RECURSIVE GreedyFrom(_, _)
GreedyFrom(p, i) ==
  IF i > Len(p) THEN <<>>
  ELSE IF p[i] = "{" /\ LastClose(p) > i + 1
       THEN ParamToken \o SubSeq(p, LastClose(p) + 1, Len(p))
       ELSE <<p[i]>> \o GreedyFrom(p, i + 1)

_normalize_path_greedy(path) == GreedyFrom(path, 1)

_normalize_path(path) == SubFrom(path, 1)

(* ----------------------------- documents ------------------------------ *)

\* A JSON value of a path item: an operation object (kind "object") or a
\* non-operation member such as a parameters array (kind "array"); size is
\* its number of members, which decides its truth value in Python.
Operation(dep, tags) ==
  [kind |-> "object", deprecated |-> dep, tags |-> tags, size |-> 1]

Array(n) == [kind |-> "array", deprecated |-> FALSE, tags |-> <<>>, size |-> n]

Truthy(v) == v.size > 0

\* json.loads(path.read_text()): reading a file that does not exist raises
_load_openapi(file) ==
  IF file.exists THEN file.content ELSE Raised("FileNotFoundError")

RECURSIVE SetToSeq(_)
SetToSeq(S) ==
  IF S = {} THEN <<>>
  ELSE LET x == CHOOSE y \in S : TRUE IN <<x>> \o SetToSeq(S \ {x})

\* the order in which dict.items() yields the entries of a mapping loaded
\* from JSON; every list built from it is sorted before it is returned
ItemsOrder(f) == SortSeq(SetToSeq(DOMAIN f), StrLess)

(* ------------------- get_coverage_gaps: the indexer ------------------- *)

\* lines 196-210: the operations of one path item, added to openapi_ops
RECURSIVE CollectItem(_, _, _, _, _)
CollectItem(acc, p, item, incl, j) ==
  IF j > Len(RecognizedMethods) THEN acc
  ELSE LET method == RecognizedMethods[j] IN
       IF method \notin DOMAIN item
       THEN CollectItem(acc, p, item, incl, j + 1)
       ELSE LET op == item[method] IN
            IF (~incl) /\ op.deprecated
            THEN CollectItem(acc, p, item, incl, j + 1)
            ELSE LET key == _op_key(method, p) IN
                 CollectItem(
                   DictPut(acc, key,
                     [key |-> key, path |-> p, method |-> Upper(method),
                      tags |-> op.tags, deprecated |-> op.deprecated,
                      normalizedPath |-> _normalize_path(p)]),
                   p, item, incl, j + 1)

\* lines 194-210: openapi_ops
RECURSIVE CollectFrom(_, _, _, _, _)
CollectFrom(acc, paths, order, incl, i) ==
  IF i > Len(order) THEN acc
  ELSE CollectFrom(CollectItem(acc, order[i], paths[order[i]], incl, 1),
                   paths, order, incl, i + 1)

CollectOps(paths, incl) == CollectFrom(<<>>, paths, ItemsOrder(paths), incl, 1)

(* ------------------- _parse_implemented_endpoints --------------------- *)

\* lines 173-176: the dict comprehension over the regex matches; a key met
\* again keeps its first position and takes the later value
RECURSIVE ImplementedFrom(_, _, _)
ImplementedFrom(acc, matches, i) ==
  IF i > Len(matches) THEN acc
  ELSE LET m == matches[i] IN
       ImplementedFrom(
         DictPut(acc, <<m.m0, " ">> \o m.m1,
                 [api |-> m.m2, method |-> m.m3, path |-> m.m1]),
         matches, i + 1)

_parse_implemented_endpoints(file) ==
  IF ~file.exists THEN <<>> ELSE ImplementedFrom(<<>>, file.content, 1)

\* index of the first " " of s at or after i, or 0
RECURSIVE FirstSpace(_, _)
FirstSpace(s, i) ==
  IF i > Len(s) THEN 0
  ELSE IF s[i] = " " THEN i
  ELSE FirstSpace(s, i + 1)

\* key.split(" ", 1) followed by f"{method} {_normalize_path(path)}"
NormalizedKey(key) ==
  LET sp == FirstSpace(key, 1)
      method == SubSeq(key, 1, sp - 1)
      path == SubSeq(key, sp + 1, Len(key))
  IN method \o <<" ">> \o _normalize_path(path)

(* ------------------ get_coverage_gaps: reconciliation ----------------- *)

\* lines 216-220: impl_normalized
RECURSIVE ImplNormalizedFrom(_, _, _)
ImplNormalizedFrom(acc, implemented, i) ==
  IF i > Len(implemented) THEN acc
  ELSE ImplNormalizedFrom(
         DictPut(acc, NormalizedKey(implemented[i].k), implemented[i].k),
         implemented, i + 1)

\* a slip: impl_normalized keyed by the raw key, not the normalized one
ImplNormalized_Raw(implemented) ==
  [i \in 1..Len(implemented) |-> [k |-> implemented[i].k, v |-> implemented[i].k]]

ImplNormalized(implemented) == ImplNormalizedFrom(<<>>, implemented, 1)

\* a slip: the exact match is not skipped
CategorizeOne_NoExactSkip(acc, op, implemented, impl_normalized) ==
  LET normalized_key == <<op.method, " ">> \o op.normalizedPath IN
  IF DictHas(impl_normalized, normalized_key)
  THEN [acc EXCEPT !.path_variations =
          Append(@, [openapi |-> op.key,
                     implemented |-> DictGet(impl_normalized, normalized_key),
                     tags |-> op.tags])]
  ELSE [acc EXCEPT !.missing =
          Append(@, [key |-> op.key, tags |-> op.tags,
                     deprecated |-> op.deprecated])]

\* lines 226-248: one OpenAPI operation put into missing or path_variations,
\* or skipped as an exact match
CategorizeOne(acc, op, implemented, impl_normalized) ==
  IF DictHas(implemented, op.key) THEN acc
  ELSE LET normalized_key == <<op.method, " ">> \o op.normalizedPath IN
       IF DictHas(impl_normalized, normalized_key)
       THEN [acc EXCEPT !.path_variations =
               Append(@, [openapi |-> op.key,
                          implemented |-> DictGet(impl_normalized, normalized_key),
                          tags |-> op.tags])]
       ELSE [acc EXCEPT !.missing =
               Append(@, [key |-> op.key, tags |-> op.tags,
                          deprecated |-> op.deprecated])]

RECURSIVE CategorizeFrom(_, _, _, _, _)
CategorizeFrom(acc, ops, implemented, impl_normalized, i) ==
  IF i > Len(ops) THEN acc
  ELSE CategorizeFrom(CategorizeOne(acc, ops[i].v, implemented, impl_normalized),
                      ops, implemented, impl_normalized, i + 1)

Categorize(openapi_ops, implemented, impl_normalized) ==
  CategorizeFrom([missing |-> <<>>, path_variations |-> <<>>],
                 openapi_ops, implemented, impl_normalized, 1)

\* line 252: openapi_normalized
OpenapiNormalized(openapi_ops) ==
  {<<openapi_ops[i].v.method, " ">> \o openapi_ops[i].v.normalizedPath :
     i \in 1..Len(openapi_ops)}

\* lines 254-263: extra
RECURSIVE ExtraFrom(_, _, _, _, _)
ExtraFrom(acc, implemented, openapi_ops, openapi_normalized, i) ==
  IF i > Len(implemented) THEN acc
  ELSE LET key == implemented[i].k
           info == implemented[i].v
       IN IF (~DictHas(openapi_ops, key))
             /\ NormalizedKey(key) \notin openapi_normalized
          THEN ExtraFrom(Append(acc, [key |-> key, api |-> info.api,
                                      method |-> info.method]),
                         implemented, openapi_ops, openapi_normalized, i + 1)
          ELSE ExtraFrom(acc, implemented, openapi_ops, openapi_normalized, i + 1)

\* a slip: extra decided by the pairing of step 3, so that a record that lost
\* the normalized-index slot counts as extra
FindExtra_ByPairing(implemented, openapi_ops) ==
  LET impl_normalized == ImplNormalizedFrom(<<>>, implemented, 1)
      lost == {i \in 1..Len(implemented) :
                 /\ ~DictHas(openapi_ops, implemented[i].k)
                 /\ DictGet(impl_normalized, NormalizedKey(implemented[i].k))
                      # implemented[i].k}
      rest == ExtraFrom(<<>>, implemented, openapi_ops,
                        OpenapiNormalized(openapi_ops), 1)
  IN rest \o [n \in 1..Cardinality(lost) |->
               LET i == CHOOSE j \in lost :
                          Cardinality({h \in lost : h < j}) = n - 1
               IN [key |-> implemented[i].k, api |-> implemented[i].v.api,
                   method |-> implemented[i].v.method]]

FindExtra(implemented, openapi_ops) ==
  ExtraFrom(<<>>, implemented, openapi_ops, OpenapiNormalized(openapi_ops), 1)

ByKey(a, b) == StrLess(a.key, b.key)

ByOpenapi(a, b) == StrLess(a.openapi, b.openapi)

\* lines 190-276
get_coverage_gaps(doc, regfile, include_deprecated) ==
  LET openapi_ops == CollectOps(doc.paths, include_deprecated)
      implemented == _parse_implemented_endpoints(regfile)
      impl_normalized == ImplNormalized(implemented)
      cat == Categorize(openapi_ops, implemented, impl_normalized)
      extra == FindExtra(implemented, openapi_ops)
  IN [stats |-> [openApiTotal |-> Len(openapi_ops),
                 implementedTotal |-> Len(implemented),
                 missingCount |-> Len(cat.missing),
                 pathVariationsCount |-> Len(cat.path_variations),
                 extraCount |-> Len(extra)],
      missing |-> SortSeq(cat.missing, ByKey),
      pathVariations |-> SortSeq(cat.path_variations, ByOpenapi),
      extra |-> SortSeq(extra, ByKey)]

(* --------------------------- list_operations -------------------------- *)

\* a slip: the deprecated filter of line 103 is left out
RECURSIVE ListItem_NoFilter(_, _, _, _, _, _)
ListItem_NoFilter(acc, p, item, tag, incl, j) ==
  IF j > Len(RecognizedMethods) THEN acc
  ELSE LET method == RecognizedMethods[j] IN
       IF method \notin DOMAIN item
       THEN ListItem_NoFilter(acc, p, item, tag, incl, j + 1)
       ELSE LET op == item[method] IN
            IF tag # "" /\ tag \notin Range(op.tags)
            THEN ListItem_NoFilter(acc, p, item, tag, incl, j + 1)
            ELSE ListItem_NoFilter(
                   Append(acc, [key |-> _op_key(method, p), tags |-> op.tags,
                                deprecated |-> op.deprecated]),
                   p, item, tag, incl, j + 1)

\* lines 100-113: the operations of one path item, appended to ops; the tag
\* None (or "") is written "" and filters nothing
RECURSIVE ListItem(_, _, _, _, _, _)
ListItem(acc, p, item, tag, incl, j) ==
  IF j > Len(RecognizedMethods) THEN acc
  ELSE LET method == RecognizedMethods[j] IN
       IF method \notin DOMAIN item
       THEN ListItem(acc, p, item, tag, incl, j + 1)
       ELSE LET op == item[method] IN
            IF (~incl) /\ op.deprecated
            THEN ListItem(acc, p, item, tag, incl, j + 1)
            ELSE IF tag # "" /\ tag \notin Range(op.tags)
            THEN ListItem(acc, p, item, tag, incl, j + 1)
            ELSE ListItem(
                   Append(acc, [key |-> _op_key(method, p), tags |-> op.tags,
                                deprecated |-> op.deprecated]),
                   p, item, tag, incl, j + 1)

\* lines 98-113
RECURSIVE ListFrom(_, _, _, _, _, _)
ListFrom(acc, paths, order, tag, incl, i) ==
  IF i > Len(order) THEN acc
  ELSE ListFrom(ListItem(acc, order[i], paths[order[i]], tag, incl, 1),
                paths, order, tag, incl, i + 1)

\* lines 95-116
list_operations(doc, tag, include_deprecated) ==
  LET ops == ListFrom(<<>>, doc.paths, ItemsOrder(doc.paths), tag,
                      include_deprecated, 1)
  IN [count |-> Len(ops), operations |-> SortSeq(ops, ByKey)]

(* ---------------------------- get_operation --------------------------- *)

\* lines 63-87: `not path_item` holds for an absent path and for an empty
\* path item, `not op` for an absent or empty member; op.get on a member
\* that is no JSON object (a list, a string) raises AttributeError
get_operation(doc, method, path) ==
  IF path \notin DOMAIN doc.paths \/ DOMAIN doc.paths[path] = {}
  THEN [found |-> FALSE, error |-> "Path not found"]
  ELSE LET path_item == doc.paths[path] IN
       IF Lower(method) \notin DOMAIN path_item \/ ~Truthy(path_item[Lower(method)])
       THEN [found |-> FALSE, error |-> "Method not found"]
       ELSE LET op == path_item[Lower(method)] IN
            IF op.kind # "object"
            THEN Raised("AttributeError")
            ELSE [found |-> TRUE, key |-> _op_key(method, path),
                  tags |-> op.tags, deprecated |-> op.deprecated]

(* ------------------------ diff_openapi_versions ----------------------- *)

\* lines 136-141: collect, one key per member of every path item
collect(spec) ==
  {_op_key(method, p) : <<method, p>> \in
     {mp \in (UNION {DOMAIN spec.paths[q] : q \in DOMAIN spec.paths})
               \X DOMAIN spec.paths : mp[1] \in DOMAIN spec.paths[mp[2]]}}

\* sorted(list(S)) for a set of strings
Sorted(S) == SortSeq(SetToSeq(S), StrLess)

\* lines 133-149, once both snapshots were found to exist
DiffLoaded(a, b, from_version, to_version) ==
  LET spec_a == _load_openapi(a)
      spec_b == _load_openapi(b)
  IN IF "raised" \in DOMAIN spec_a THEN spec_a
     ELSE IF "raised" \in DOMAIN spec_b THEN spec_b
     ELSE [ok |-> TRUE, from |-> from_version, to |-> to_version,
           added |-> Sorted(collect(spec_b) \ collect(spec_a)),
           removed |-> Sorted(collect(spec_a) \ collect(spec_b))]

\* a slip: the test of line 130 is left out
diff_openapi_versions_OneCheck(snaps, from_version, to_version) ==
  LET a == snaps[from_version]
      b == snaps[to_version]
  IN IF ~a.exists THEN [ok |-> FALSE, error |-> "Snapshot not found"]
     ELSE DiffLoaded(a, b, from_version, to_version)

\* lines 125-149; snaps[v] is the file SNAPSHOTS_DIR/lichess.openapi.<v>.json
diff_openapi_versions(snaps, from_version, to_version) ==
  LET a == snaps[from_version]
      b == snaps[to_version]
  IN IF ~a.exists THEN [ok |-> FALSE, error |-> "Snapshot not found"]
     ELSE IF ~b.exists THEN [ok |-> FALSE, error |-> "Snapshot not found"]
     ELSE DiffLoaded(a, b, from_version, to_version)

(* ------------------------------ inputs -------------------------------- *)

pX == <<"/", "{", "x", "}">>
pY == <<"/", "{", "y", "}">>
pZ == <<"/", "{", "z", "}">>
pB == <<"/", "b">>

\* the path items whose members are drawn from `members`, each with one of
\* the values `values[m]`
ItemsOf(members, values) ==
  UNION {{f \in [S -> UNION {values[m] : m \in S}] : \A m \in S : f[m] \in values[m]} :
           S \in SUBSET members}

\* the documents with at most `n` of the paths `paths`
DocsOf(paths, items, n) ==
  UNION {{[paths |-> f] : f \in [P -> items]} :
           P \in {Q \in SUBSET paths : Cardinality(Q) <= n}}

\* the sequences over S of length at most n
SeqsUpTo(S, n) == UNION {[1..k -> S] : k \in 0..n}

NoCall == [op |-> "none"]

NoResult == [op |-> "none"]

\* documents of the reconciliation runs: operations live or deprecated
GapItems ==
  ItemsOf({"get", "post"},
          [m \in {"get", "post"} |->
             IF m = "get" THEN {Operation(FALSE, <<>>), Operation(TRUE, <<>>)}
             ELSE {Operation(FALSE, <<>>)}])

GapDocs == DocsOf({pX, pZ, pB}, GapItems, MaxPaths)

\* the (method, path, api, client method) tuples ImplementedEndpoints.cs may hold
RegistryRecords ==
  {[m0 |-> "GET", m1 |-> pX, m2 |-> "lichess", m3 |-> "GetX"],
   [m0 |-> "GET", m1 |-> pY, m2 |-> "lichess", m3 |-> "GetY"],
   [m0 |-> "POST", m1 |-> pB, m2 |-> "explorer", m3 |-> "PostB"]}

RegistryFiles ==
  {NoFile} \cup {File(ms) : ms \in SeqsUpTo(RegistryRecords, MaxRegistry)}

(* ------------------------- reconciliation runs ------------------------ *)

Init ==
  /\ openapi \in {File(d) : d \in GapDocs}
  /\ registry \in RegistryFiles
  /\ snapshots = <<>>
  /\ call = NoCall
  /\ result = NoResult

\* the tool get_coverage_gaps, lines 179-276
GetCoverageGaps ==
  \E include_deprecated \in BOOLEAN :
    /\ call' = [op |-> "get_coverage_gaps", include_deprecated |-> include_deprecated]
    /\ result' = get_coverage_gaps(_load_openapi(openapi), registry, include_deprecated)
    /\ UNCHANGED <<openapi, registry, snapshots>>

Next == GetCoverageGaps

Spec == Init /\ [][Next]_vars

(* ------------- what a reconciliation run was called with -------------- *)

IsGaps == call.op = "get_coverage_gaps"

\* the (member, path) pairs of the document that are operations of a
\* recognized method
DocOps ==
  {mp \in Range(RecognizedMethods) \X DOMAIN openapi.content.paths :
     mp[1] \in DOMAIN openapi.content.paths[mp[2]]}

DocOp(mp) == openapi.content.paths[mp[2]][mp[1]]

\* the operations the indexer keeps under the flag `incl`
Indexed(incl) == {mp \in DocOps : incl \/ ~DocOp(mp).deprecated}

KeyOf(mp) == <<Upper(mp[1]), " ">> \o mp[2]

ShapeOf(mp) == <<Upper(mp[1]), " ">> \o _normalize_path(mp[2])

\* the records of the registry, by position
Records == IF registry.exists THEN registry.content ELSE <<>>

RecordKey(r) == <<r.m0, " ">> \o r.m1

RecordShape(r) == <<r.m0, " ">> \o _normalize_path(r.m1)

ImplKeys == {RecordKey(r) : r \in Range(Records)}

MissingKeys == {result.missing[i].key : i \in 1..Len(result.missing)}

VariationKeys == {result.pathVariations[i].openapi : i \in 1..Len(result.pathVariations)}

ExtraKeys == {result.extra[i].key : i \in 1..Len(result.extra)}

(* ------------------------------- C1 ----------------------------------- *)

\* C1: get_coverage_gaps partitions the indexed OpenAPI operation keys into
\* the keys of the implemented index, the 'openapi' keys of pathVariations
\* and the keys of missing: the three are pairwise disjoint, cover the index,
\* no list repeats a key, and openApiTotal is the sum of the three sizes.
C1_Partition ==
  IsGaps =>
    LET I == {KeyOf(mp) : mp \in Indexed(call.include_deprecated)}
        E == I \cap ImplKeys
    IN /\ I = E \cup VariationKeys \cup MissingKeys
       /\ VariationKeys \cap ImplKeys = {}
       /\ MissingKeys \cap ImplKeys = {}
       /\ VariationKeys \cap MissingKeys = {}
       /\ Cardinality(VariationKeys) = Len(result.pathVariations)
       /\ Cardinality(MissingKeys) = Len(result.missing)
       /\ result.stats.pathVariationsCount = Len(result.pathVariations)
       /\ result.stats.missingCount = Len(result.missing)
       /\ result.stats.openApiTotal =
            Cardinality(E) + result.stats.pathVariationsCount + result.stats.missingCount

\* a run in which all three parts are inhabited
C1_Witness ==
  /\ IsGaps
  /\ result.missing # <<>>
  /\ result.pathVariations # <<>>
  /\ \E mp \in Indexed(call.include_deprecated) : KeyOf(mp) \in ImplKeys

(* ------------------------------- C2 ----------------------------------- *)

\* C2: an indexed operation without an exact match, for which some record
\* has the same method and the same normalized path, is in pathVariations,
\* paired with an implemented key of that method and normalized path, and is
\* not in missing.
C2_VariationNotMissing ==
  IsGaps =>
    \A mp \in Indexed(call.include_deprecated) :
      (/\ KeyOf(mp) \notin ImplKeys
       /\ \E r \in Range(Records) : RecordShape(r) = ShapeOf(mp))
      => /\ KeyOf(mp) \notin MissingKeys
         /\ \E i \in 1..Len(result.pathVariations) :
              /\ result.pathVariations[i].openapi = KeyOf(mp)
              /\ \E r \in Range(Records) :
                   /\ RecordKey(r) = result.pathVariations[i].implemented
                   /\ RecordShape(r) = ShapeOf(mp)

\* two operations of one shape, both paired with the same implemented key
C2_Witness ==
  /\ IsGaps
  /\ \E i, j \in 1..Len(result.pathVariations) :
       /\ i # j
       /\ result.pathVariations[i].implemented = result.pathVariations[j].implemented

(* ------------------------------- C3 ----------------------------------- *)

\* C3: a record is in extra exactly when its key is not an indexed operation
\* key and its 'METHOD normalize(PATH)' key is the normalized key of no
\* indexed operation, whatever the pairing of pathVariations; extra lists
\* each such key once.
C3_ExtraIff ==
  IsGaps =>
    LET I == Indexed(call.include_deprecated) IN
    /\ ExtraKeys =
         {RecordKey(r) : r \in
            {q \in Range(Records) :
               /\ RecordKey(q) \notin {KeyOf(mp) : mp \in I}
               /\ RecordShape(q) \notin {ShapeOf(mp) : mp \in I}}}
    /\ Cardinality(ExtraKeys) = Len(result.extra)

\* a record that lost the normalized-index slot to another record and is
\* still not extra, in a run that reports some extra record
C3_Witness ==
  /\ IsGaps
  /\ result.extra # <<>>
  /\ \E r \in Range(Records) :
       /\ RecordKey(r) \notin ExtraKeys
       /\ RecordKey(r) \notin {KeyOf(mp) : mp \in Indexed(call.include_deprecated)}
       /\ \A i \in 1..Len(result.pathVariations) :
            result.pathVariations[i].implemented # RecordKey(r)
       /\ \E i \in 1..Len(result.pathVariations) :
            \E q \in Range(Records) :
              /\ RecordKey(q) = result.pathVariations[i].implemented
              /\ RecordShape(q) = RecordShape(r)

(* ------------------------------- C9 ----------------------------------- *)

\* C9: the implemented key of a pathVariations entry is the key of the
\* record met last in registry order among the records of that shape, for
\* every registry sequence, repeated keys included.
C9_LastRecordWins ==
  IsGaps =>
    \A i \in 1..Len(result.pathVariations) :
      LET e == result.pathVariations[i]
          same == {n \in 1..Len(Records) :
                     \E mp \in DocOps : /\ KeyOf(mp) = e.openapi
                                        /\ RecordShape(Records[n]) = ShapeOf(mp)}
          last == CHOOSE n \in same : \A k \in same : k <= n
      IN e.implemented = RecordKey(Records[last])

(* ------------------------------- C10 ---------------------------------- *)

\* C10: every entry of extra is an implemented endpoint that is not in the
\* OpenAPI document: no operation of the document has its method and path,
\* nor its method and normalized path.
C10_ExtraNotInSpec ==
  IsGaps =>
    \A r \in Range(Records) :
      RecordKey(r) \in ExtraKeys =>
        \A mp \in DocOps : /\ KeyOf(mp) # RecordKey(r)
                           /\ ShapeOf(mp) # RecordShape(r)

(* ----------------------------- query runs ----------------------------- *)

\* documents of the query runs: tagged and untagged operations, live or
\* deprecated, next to a path-level parameters array
QueryItems ==
  ItemsOf({"get", "post", "parameters"},
          [m \in {"get", "post", "parameters"} |->
             CASE m = "get" -> {Operation(FALSE, <<>>), Operation(FALSE, <<"t">>),
                                Operation(TRUE, <<>>), Operation(TRUE, <<"t">>)}
               [] m = "post" -> {Operation(FALSE, <<>>)}
               [] m = "parameters" -> {Array(0), Array(1)}])

QueryDocs == DocsOf({pX, pB}, QueryItems, MaxPaths)

QueryRegistries ==
  {NoFile,
   File(<<[m0 |-> "GET", m1 |-> pY, m2 |-> "lichess", m3 |-> "GetY"]>>)}

\* the tag, method and path arguments a caller passes
TagArgs == {"", "t"}

MethodArgs == {"GET", "get", "POST", "parameters"}

PathArgs == {pX, pB, pY}

InitQuery ==
  /\ openapi \in {File(d) : d \in QueryDocs}
  /\ registry \in QueryRegistries
  /\ snapshots = <<>>
  /\ call = NoCall
  /\ result = NoResult

\* the tool list_operations, lines 90-116
ListOperations ==
  \E tag \in TagArgs, include_deprecated \in BOOLEAN :
    /\ call' = [op |-> "list_operations", tag |-> tag,
                include_deprecated |-> include_deprecated]
    /\ result' = list_operations(_load_openapi(openapi), tag, include_deprecated)
    /\ UNCHANGED <<openapi, registry, snapshots>>

\* the tool get_operation, lines 57-87
GetOperation ==
  \E method \in MethodArgs, path \in PathArgs :
    /\ call' = [op |-> "get_operation", method |-> method, path |-> path]
    /\ result' = get_operation(_load_openapi(openapi), method, path)
    /\ UNCHANGED <<openapi, registry, snapshots>>

NextQuery == ListOperations \/ GetOperation \/ GetCoverageGaps

SpecQuery == InitQuery /\ [][NextQuery]_vars

IsList == call.op = "list_operations"

IsGetOp == call.op = "get_operation"

ListedKeys == {result.operations[i].key : i \in 1..Len(result.operations)}

\* the tag filter of line 106
TagPasses(mp, tag) == tag = "" \/ tag \in Range(DocOp(mp).tags)

(* ------------------------------- C4 ----------------------------------- *)

\* C4: with include_deprecated = false a deprecated operation is neither
\* listed by list_operations nor part of the OpenAPI side of
\* get_coverage_gaps (not counted, not missing, not a path variation); with
\* include_deprecated = true it is listed (when it passes the tag filter) and
\* counted, and its list_operations and missing entries carry
\* deprecated = true; an operation that is not deprecated is listed and
\* classified the same under both values of the flag.
C4_DeprecatedFilter ==
  /\ IsList =>
       /\ \A mp \in DocOps :
            KeyOf(mp) \in ListedKeys <=>
              /\ TagPasses(mp, call.tag)
              /\ call.include_deprecated \/ ~DocOp(mp).deprecated
       /\ \A i \in 1..Len(result.operations) :
            \A mp \in DocOps :
              KeyOf(mp) = result.operations[i].key =>
                result.operations[i].deprecated = DocOp(mp).deprecated
       /\ result.count = Len(result.operations)
       /\ Cardinality(ListedKeys) = Len(result.operations)
  /\ IsGaps =>
       /\ result.stats.openApiTotal =
            Cardinality({mp \in DocOps :
                           call.include_deprecated \/ ~DocOp(mp).deprecated})
       /\ \A mp \in DocOps :
            LET unmatched == /\ KeyOf(mp) \notin ImplKeys
                             /\ \A r \in Range(Records) : RecordShape(r) # ShapeOf(mp)
                varied == /\ KeyOf(mp) \notin ImplKeys
                          /\ \E r \in Range(Records) : RecordShape(r) = ShapeOf(mp)
                kept == call.include_deprecated \/ ~DocOp(mp).deprecated
            IN /\ KeyOf(mp) \in MissingKeys <=> (kept /\ unmatched)
               /\ KeyOf(mp) \in VariationKeys <=> (kept /\ varied)
       /\ \A i \in 1..Len(result.missing) :
            \A mp \in DocOps :
              KeyOf(mp) = result.missing[i].key =>
                result.missing[i].deprecated = DocOp(mp).deprecated

\* a listing with include_deprecated = true that holds a deprecated operation
\* next to a live one
C4_Witness ==
  /\ IsList
  /\ call.include_deprecated
  /\ \E i, j \in 1..Len(result.operations) :
       result.operations[i].deprecated /\ ~result.operations[j].deprecated

(* ------------------------------- C6 ----------------------------------- *)

\* C6: get_operation never raises: it returns found = false when the path is
\* absent or the method names no operation of the path item (also when it
\* names a non-operation member), and found = true with key 'METHOD path'
\* when the path item has an operation for the method.
C6_NeverRaises ==
  IsGetOp =>
    LET paths == openapi.content.paths
        has == /\ call.path \in DOMAIN paths
               /\ Lower(call.method) \in DOMAIN paths[call.path]
               /\ paths[call.path][Lower(call.method)].kind = "object"
    IN /\ "raised" \notin DOMAIN result
       /\ has => /\ result.found
                 /\ result.key = <<Upper(call.method), " ">> \o call.path
       /\ ~has => ~result.found /\ "error" \in DOMAIN result

(* ------------------------------ diff runs ----------------------------- *)

Versions == {"1", "2"}

\* snapshot documents: an operation of a recognized method, one of an
\* unrecognized method and a path-level parameters array
SnapItems ==
  ItemsOf({"get", "trace", "parameters"},
          [m \in {"get", "trace", "parameters"} |->
             IF m = "parameters" THEN {Array(1)} ELSE {Operation(FALSE, <<>>)}])

SnapDocs == DocsOf({pX, pB}, SnapItems, MaxPaths)

InitDiff ==
  /\ openapi = File([paths |-> <<>>])
  /\ registry = NoFile
  /\ snapshots \in [Versions -> {NoFile} \cup {File(d) : d \in SnapDocs}]
  /\ call = NoCall
  /\ result = NoResult

\* the tool diff_openapi_versions, lines 119-149
DiffOpenapiVersions ==
  \E from_version \in Versions, to_version \in Versions :
    /\ call' = [op |-> "diff_openapi_versions", from |-> from_version,
                to |-> to_version]
    /\ result' = diff_openapi_versions(snapshots, from_version, to_version)
    /\ UNCHANGED <<openapi, registry, snapshots>>

NextDiff == DiffOpenapiVersions

SpecDiff == InitDiff /\ [][NextDiff]_vars

IsDiff == call.op = "diff_openapi_versions"

\* the operation index of a snapshot as the Operation Indexer builds it
IndexKeys(doc) ==
  {<<Upper(mp[1]), " ">> \o mp[2] : mp \in
     {q \in Range(RecognizedMethods) \X DOMAIN doc.paths :
        q[1] \in DOMAIN doc.paths[q[2]]}}

(* ------------------------------- C5 ----------------------------------- *)

\* C5: when both snapshots exist, added = keys(to) - keys(from) and
\* removed = keys(from) - keys(to), keys(X) being the operation index of X
\* over the recognized methods, so that no key of another member of a path
\* item is in added or removed.
C5_DiffOfIndexes ==
  (IsDiff /\ snapshots[call.from].exists /\ snapshots[call.to].exists) =>
    LET kf == IndexKeys(snapshots[call.from].content)
        kt == IndexKeys(snapshots[call.to].content)
    IN /\ Range(result.added) = kt \ kf
       /\ Range(result.removed) = kf \ kt

(* ------------------------------- C7 ----------------------------------- *)

\* C7: diff_openapi_versions returns ok = false with an error and without
\* added/removed lists exactly when the snapshot of from_version or of
\* to_version does not exist, and ok = true with added and removed when both
\* exist; it never raises, so it never loads an absent snapshot.
C7_NotFoundIff ==
  IsDiff =>
    LET absent == ~snapshots[call.from].exists \/ ~snapshots[call.to].exists
    IN /\ "raised" \notin DOMAIN result
       /\ "ok" \in DOMAIN result
       /\ ~result.ok <=> absent
       /\ ~result.ok => DOMAIN result = {"ok", "error"}
       /\ result.ok => {"added", "removed"} \subseteq DOMAIN result

\* a diff refused because only the snapshot of to_version is absent
C7_Witness ==
  /\ IsDiff
  /\ snapshots[call.from].exists
  /\ ~snapshots[call.to].exists
  /\ ~result.ok

(* --------------------------- normalizer runs -------------------------- *)

PathChars == {"{", "}", "a", "/"}

PathStrings == SeqsUpTo(PathChars, MaxLen)

\* a run normalizes one path string, drawn here
InitNorm ==
  /\ openapi = File([paths |-> <<>>])
  /\ registry = NoFile
  /\ snapshots = <<>>
  /\ call \in {[op |-> "_normalize_path", path |-> path] : path \in PathStrings}
  /\ result = NoResult

\* _normalize_path applied to the path string, lines 152-160
NormalizeInput ==
  /\ "value" \notin DOMAIN result
  /\ result' = [value |-> _normalize_path(call.path)]
  /\ UNCHANGED <<openapi, registry, snapshots, call>>

\* _normalize_path applied to its own result
NormalizeAgain ==
  /\ "value" \in DOMAIN result
  /\ call' = [op |-> "_normalize_path", path |-> result.value]
  /\ result' = [value |-> _normalize_path(result.value)]
  /\ UNCHANGED <<openapi, registry, snapshots>>

NextNorm == NormalizeInput \/ NormalizeAgain

SpecNorm == InitNorm /\ [][NextNorm]_vars

IsNorm == call.op = "_normalize_path" /\ "value" \in DOMAIN result

\* the placeholders of s, as intervals <<i, j>>: for each "}" at j, the first
\* "{" after the "}" before it, when at least one character lies between
Placeholders(s) ==
  {iv \in (1..Len(s)) \X (1..Len(s)) :
     /\ s[iv[2]] = "}"
     /\ s[iv[1]] = "{"
     /\ iv[1] + 1 < iv[2]
     /\ \A k \in iv[1]..(iv[2] - 1) : s[k] # "}"
     /\ \A k \in 1..(iv[1] - 1) :
          s[k] = "{" => \E h \in k..iv[1] : s[h] = "}"}

\* s without its placeholders
OutsideText(s) ==
  LET keep == {i \in 1..Len(s) :
                 \A iv \in Placeholders(s) : i < iv[1] \/ i > iv[2]}
  IN [n \in 1..Cardinality(keep) |->
        s[CHOOSE i \in keep : Cardinality({h \in keep : h < i}) = n - 1]]

(* ------------------------------- C8 ----------------------------------- *)

\* C8: _normalize_path is idempotent, and it keeps the text outside the
\* placeholders verbatim: the result has as many placeholders as the path,
\* each reading {param}, and the same text around them.
C8_Idempotent ==
  IsNorm =>
    /\ _normalize_path(result.value) = result.value
    /\ OutsideText(result.value) = OutsideText(call.path)
    /\ Cardinality(Placeholders(result.value)) = Cardinality(Placeholders(call.path))
    /\ \A iv \in Placeholders(result.value) :
         SubSeq(result.value, iv[1], iv[2]) = ParamToken

\* a path with empty braces, a placeholder and an unbalanced brace, whose
\* result was normalized again
C8_Witness ==
  /\ IsNorm
  /\ Placeholders(call.path) # {}
  /\ call.path = result.value
  /\ \E i \in 1..(Len(call.path) - 1) : call.path[i] = "{" /\ call.path[i + 1] = "}"
  /\ \E i \in 1..Len(call.path) :
       /\ call.path[i] = "}"
       /\ i > 1 => call.path[i - 1] # "{"
       /\ \A iv \in Placeholders(call.path) : iv[2] # i

====
